---- MODULE Spec2Model ----
(***************************************************************************)
(* Model of the zero-ramification Goldbach scan:                           *)
(*   scripts/goldbach_rigid_scan.py  (sieve_radicals, odd_rad, scan_N,     *)
(*                                    the single-N report, the 2^k series) *)
(*   scripts/export_data.py          (sieve, odd_radical, the N scan, the  *)
(*                                    2^k evolution table)                 *)
(*                                                                         *)
(* Both scripts fix their inputs as module-level constants (N = 1024,      *)
(* LIMIT = 16384, k in range(7, 15)).  The model keeps N = 1024 for the    *)
(* main scan and additionally runs the same code on small sieve limits,    *)
(* small scan targets N and a scaled-down series (LIMIT = 2^j, j up to     *)
(* KLast).                                                                 *)
(*                                                                         *)
(* Numbers.  Python integers are unbounded; conductor_proxy = base*base    *)
(* exceeds 2^31 at N = 1024, so it is kept as an exact natural number in   *)
(* limbs (Big*, radix Radix, least significant limb first).  rho is the    *)
(* real ln(conductor_proxy)/ln(N); it is kept exactly as the record        *)
(* [ln_num |-> c, ln_den |-> N] that denotes ln(c)/ln(N), the float 0.0    *)
(* being ln(1)/ln(N).  For one N > 1, ln is strictly increasing, so rho    *)
(* values of one scan are ordered as their ln_num.  A bandwidth            *)
(* max(rhos) - min(rhos) is kept as the pair [hi, lo] of the two rho       *)
(* values; it is 0 exactly when hi = lo.                                   *)
(***************************************************************************)
EXTENDS Integers, Sequences, FiniteSets, TLC

\* ------------------------------------------------------------------ bounds
\* Sieve limits 0..MaxLimit are tried (besides MainN + 1).
MaxLimit == 24
\* Scan targets start at -NegSpan.
NegSpan == 3
\* The series range is KFirst..KLast (range(7, 15) in the scripts, scaled).
KLast == 9
\* The radix of the limbs of an exact natural; any radix gives the same numbers.
Radix == 1000

\* ------------------------------------------------------- program constants
\* N of goldbach_rigid_scan.py line 84 (and export_data.py line 32)
MainN == 1024
\* the first k of range(7, 15)
KFirst == 7

\* ------------------------------------------- exact naturals (Python ints)
RECURSIVE ToBig(_)
ToBig(n) == IF n < Radix THEN <<n>> ELSE <<n % Radix>> \o ToBig(n \div Radix)

RECURSIVE SumTo(_, _, _)
\* sum of f[i] for i in lo..hi
SumTo(f, lo, hi) == IF lo > hi THEN 0 ELSE f[lo] + SumTo(f, lo + 1, hi)

RECURSIVE Carry(_, _, _)
\* carry propagation over the limb sums cs (a sequence), from position i
Carry(cs, i, c) ==
  IF i > Len(cs)
  THEN (IF c = 0 THEN <<>> ELSE ToBig(c))
  ELSE <<(cs[i] + c) % Radix>> \o Carry(cs, i + 1, (cs[i] + c) \div Radix)

RECURSIVE Strip(_)
\* canonical form: no leading (most significant) zero limb, at least one limb
Strip(a) == IF Len(a) > 1 /\ a[Len(a)] = 0 THEN Strip(SubSeq(a, 1, Len(a) - 1)) ELSE a

BigMul(a, b) ==
  LET la == Len(a)
      lb == Len(b)
      conv == [k \in 1..(la + lb - 1) |->
                 SumTo([i \in 1..la |-> IF k - i + 1 >= 1 /\ k - i + 1 <= lb
                                        THEN a[i] * b[k - i + 1] ELSE 0], 1, la)]
  IN Strip(Carry(conv, 1, 0))

RECURSIVE BigLessFrom(_, _, _)
\* a < b for canonical a, b of equal length, compared from limb i downwards
BigLessFrom(a, b, i) ==
  IF i = 0 THEN FALSE
  ELSE IF a[i] # b[i] THEN a[i] < b[i]
  ELSE BigLessFrom(a, b, i - 1)

BigLess(a, b) ==
  IF Len(a) # Len(b) THEN Len(a) < Len(b) ELSE BigLessFrom(a, b, Len(a))

BigOne == <<1>>

\* ------------------------------------------------------- rho (see header)
RhoZero(N) == [ln_num |-> BigOne, ln_den |-> N]
RhoLess(a, b) == BigLess(a.ln_num, b.ln_num)
RhoPos(r) == BigLess(BigOne, r.ln_num)

\* ------------------------------------------------------ arrays (0-based)
\* A Python array a of length n is the sequence of its elements; a[j] is At(a, j).
At(a, j) == a[j + 1]
\* the array of length n with element e(j) at index j, built element by element
Filled(f) == f \o <<>>

\* ------------------------------ goldbach_rigid_scan.py: sieve_radicals
\* one pass of the outer loop body, lines 27-31, for index i
SieveStep(i, limit, st) ==
  IF At(st.is_prime, i) = 1
  THEN [rads |-> Filled([n \in 1..(limit + 1) |->
                   IF n - 1 >= i /\ (n - 1) % i = 0 THEN st.rads[n] * i ELSE st.rads[n]]),
        is_prime |-> Filled([n \in 1..(limit + 1) |->
                   IF n - 1 > i /\ (n - 1) % i = 0 THEN 0 ELSE st.is_prime[n]])]
  ELSE st

RECURSIVE SieveLoop(_, _, _, _)
\* the loop of lines 26-31 over i = lo..hi in ascending order (the range is
\* halved to keep the evaluation shallow; the order of the passes is the loop's)
SieveLoop(lo, hi, limit, st) ==
  IF lo > hi THEN st
  ELSE IF lo = hi THEN SieveStep(lo, limit, st)
  ELSE LET mid == (lo + hi) \div 2
           done == SieveLoop(lo, mid, limit, st)
       \* the passes lo..mid are finished before pass mid + 1 starts
       IN IF Len(done.rads) = limit + 1
          THEN SieveLoop(mid + 1, hi, limit, done)
          ELSE done

\* limit >= 0.  With limit = 0 the bytearray has one element and line 25,
\* is_prime[0] = is_prime[1] = 0, raises IndexError.
sieve_radicals(limit) ==
  IF limit + 1 < 2
  THEN [err |-> "IndexError", rads |-> <<>>, primes_set |-> {}]
  ELSE LET r == SieveLoop(2, limit, limit,
                  [rads |-> Filled([n \in 1..(limit + 1) |-> 1]),
                   is_prime |-> Filled([n \in 1..(limit + 1) |-> IF n - 1 < 2 THEN 0 ELSE 1])])
       IN [err |-> "none", rads |-> r.rads,
           primes_set |-> {i \in 2..limit : At(r.is_prime, i) = 1}]

RECURSIVE StripTwos(_)
StripTwos(r) == IF r % 2 = 0 THEN StripTwos(r \div 2) ELSE r

\* odd_rad without the loop of lines 38-39
odd_rad_unstripped(x, rads) ==
  LET r == At(rads, x) IN IF r > 0 THEN r ELSE 1

odd_rad(x, rads) ==
  LET r == StripTwos(At(rads, x)) IN IF r > 0 THEN r ELSE 1

\* ------------------------------------------ goldbach_rigid_scan.py: scan_N
\* line 59 with a wrong threshold: cond > 9
Rho_threshold(cond, N) ==
  IF BigLess(<<9>>, cond) THEN [ln_num |-> cond, ln_den |-> N] ELSE RhoZero(N)

Rho(cond, N) == IF BigLess(BigOne, cond) THEN [ln_num |-> cond, ln_den |-> N] ELSE RhoZero(N)

\* line 66 with the test on q dropped: elif p_is_prime
Category_p_only(p_is_prime, q_is_prime) ==
  IF p_is_prime /\ q_is_prime THEN "Goldbach"
  ELSE IF p_is_prime THEN "Mixed"
  ELSE "Composite"

Category(p_is_prime, q_is_prime) ==
  IF p_is_prime /\ q_is_prime THEN "Goldbach"
  ELSE IF p_is_prime \/ q_is_prime THEN "Mixed"
  ELSE "Composite"

\* line 54 reading rads[N] in place of rads[N // 2]
ScanRow_radN(p, N, rads, primes_set) ==
  LET q == N - p
      rp == odd_rad(p, rads)
      rq == odd_rad(q, rads)
      rM == odd_rad(N, rads)
      base == rp * rq * rM * rM
      cond == BigMul(ToBig(base), ToBig(base))
  IN [p |-> p, q |-> q, rad_odd_p |-> rp, rad_odd_q |-> rq,
      conductor_proxy |-> cond, rho |-> Rho(cond, N),
      category |-> Category(p \in primes_set, q \in primes_set)]

ScanRow(p, N, rads, primes_set) ==
  LET q == N - p
      rp == odd_rad(p, rads)
      rq == odd_rad(q, rads)
      rM == odd_rad(N \div 2, rads)
      base == rp * rq * rM * rM
      cond == BigMul(ToBig(base), ToBig(base))
  IN [p |-> p, q |-> q, rad_odd_p |-> rp, rad_odd_q |-> rq,
      conductor_proxy |-> cond, rho |-> Rho(cond, N),
      category |-> Category(p \in primes_set, q \in primes_set)]

\* range(3, N // 2): the last p is lost
LastP_short(N) == N \div 2 - 1

\* the last p of range(3, N // 2 + 1)
LastP(N) == N \div 2

RECURSIVE ScanLoop(_, _, _, _, _)
\* the rows appended by the loop of lines 47-77 for p = lo..hi, in order
ScanLoop(lo, hi, N, rads, primes_set) ==
  IF lo > hi THEN <<>>
  ELSE IF lo = hi
       THEN (IF N - lo <= 1 THEN <<>> ELSE <<ScanRow(lo, N, rads, primes_set)>>)
  ELSE LET mid == (lo + hi) \div 2
       IN ScanLoop(lo, mid, N, rads, primes_set)
            \o ScanLoop(mid + 1, hi, N, rads, primes_set)

\* rads[p], rads[q] and rads[N // 2] are read for every retained p; an index
\* past the array raises IndexError.  Nothing else in scan_N raises.
ScanOutOfRange(N, rads) ==
  \E p \in 3..LastP(N) :
     N - p > 1 /\ (p >= Len(rads) \/ N - p >= Len(rads) \/ N \div 2 >= Len(rads))

\* scan_N with the loop started at p = 2
scan_N_from2(N, rads, primes_set) ==
  IF ScanOutOfRange(N, rads)
  THEN [err |-> "IndexError", rows |-> <<>>]
  ELSE [err |-> "none", rows |-> ScanLoop(2, LastP(N), N, rads, primes_set)]

scan_N(N, rads, primes_set) ==
  IF ScanOutOfRange(N, rads)
  THEN [err |-> "IndexError", rows |-> <<>>]
  ELSE [err |-> "none", rows |-> ScanLoop(3, LastP(N), N, rads, primes_set)]

\* ---------------------------------------------------- export_data.py: sieve
isqrt(n) == CHOOSE r \in 0..n : r * r <= n /\ (r + 1) * (r + 1) > n

\* line 12 for index i: is_prime[i*i::i] = zeros
XSieveStep(i, limit, bits) ==
  IF At(bits, i) = 1
  THEN Filled([n \in 1..(limit + 1) |->
                 IF n - 1 >= i * i /\ (n - 1 - i * i) % i = 0 THEN 0 ELSE bits[n]])
  ELSE bits

RECURSIVE XSieveLoop(_, _, _, _)
\* the loop of lines 10-12 from index i to hi
XSieveLoop(i, hi, limit, bits) ==
  IF i > hi THEN bits
  ELSE XSieveLoop(i + 1, hi, limit, XSieveStep(i, limit, bits))

\* limit >= 0; line 9 raises IndexError when the bytearray has one element
sieve(limit) ==
  IF limit + 1 < 2
  THEN [err |-> "IndexError", bits |-> <<>>]
  ELSE [err |-> "none",
        bits |-> XSieveLoop(2, isqrt(limit), limit,
                   Filled([n \in 1..(limit + 1) |-> IF n - 1 < 2 THEN 0 ELSE 1]))]

\* ---------------------------------------------- export_data.py: odd_radical
RECURSIVE DivOut(_, _)
\* while temp % d == 0: temp //= d
DivOut(temp, d) == IF temp % d = 0 THEN DivOut(temp \div d, d) ELSE temp

RECURSIVE TrialLoop(_, _, _)
\* the loop of lines 20-24 from d on, then line 25
TrialLoop(d, temp, r) ==
  IF d * d > temp THEN (IF temp > 1 THEN r * temp ELSE r)
  ELSE IF temp % d = 0 THEN TrialLoop(d + 2, DivOut(temp, d), r * d)
  ELSE TrialLoop(d + 2, temp, r)

odd_radical(n) == IF n <= 1 THEN 1 ELSE TrialLoop(3, DivOut(n, 2), 1)

\* ------------------------------------------- export_data.py: scan (34-44)
ExportType(bits, p, q) ==
  IF At(bits, p) = 1 /\ At(bits, q) = 1 THEN "Goldbach"
  ELSE IF ~(At(bits, p) = 1) /\ ~(At(bits, q) = 1) THEN "Composite"
  ELSE "Mixed"

\* The row of lines 35-44; rho is the value of line 40 (line 44 writes it
\* rounded to 6 places, which the exact representation does not carry).
ExportRow(p, N, bits) ==
  LET q == N - p
      rp == odd_radical(p)
      rq == odd_radical(q)
      cond == BigMul(ToBig(rp * rq), ToBig(rp * rq))
  IN [N |-> N, p |-> p, q |-> q, type |-> ExportType(bits, p, q),
      rad_odd_p |-> rp, rad_odd_q |-> rq,
      conductor_proxy |-> cond, rho |-> Rho(cond, N)]

RECURSIVE ExportLoop(_, _, _, _)
\* the rows appended for p = lo..hi, in order
ExportLoop(lo, hi, N, bits) ==
  IF lo > hi THEN <<>>
  ELSE IF lo = hi
       THEN (IF N - lo <= 1 THEN <<>> ELSE <<ExportRow(lo, N, bits)>>)
  ELSE LET mid == (lo + hi) \div 2
       IN ExportLoop(lo, mid, N, bits) \o ExportLoop(mid + 1, hi, N, bits)

\* is_prime[p] and is_prime[q] are both read for every retained p (whichever
\* branch of lines 41-43 is taken); an index past the bytearray raises.
ExportOutOfRange(N, bits) ==
  \E p \in 3..LastP(N) : N - p > 1 /\ (p >= Len(bits) \/ N - p >= Len(bits))

ExportScanRows(N, bits) ==
  IF ExportOutOfRange(N, bits)
  THEN [err |-> "IndexError", rows |-> <<>>]
  ELSE [err |-> "none", rows |-> ExportLoop(3, LastP(N), N, bits)]

\* ------------------------------------------------------------- aggregation
RECURSIVE MaxRhoIn(_, _, _)
MaxRhoIn(s, lo, hi) ==
  IF lo = hi THEN s[lo]
  ELSE LET mid == (lo + hi) \div 2
           a == MaxRhoIn(s, lo, mid)
           b == MaxRhoIn(s, mid + 1, hi)
       IN IF RhoLess(a, b) THEN b ELSE a

RECURSIVE MinRhoIn(_, _, _)
MinRhoIn(s, lo, hi) ==
  IF lo = hi THEN s[lo]
  ELSE LET mid == (lo + hi) \div 2
           a == MinRhoIn(s, lo, mid)
           b == MinRhoIn(s, mid + 1, hi)
       IN IF RhoLess(b, a) THEN b ELSE a

\* max(rhos), min(rhos) of a non-empty list
MaxRho(rhos) == MaxRhoIn(rhos, 1, Len(rhos))
MinRho(rhos) == MinRhoIn(rhos, 1, Len(rhos))

\* max(rhos) - min(rhos)
Bandwidth(rhos) == [hi |-> MaxRho(rhos), lo |-> MinRho(rhos)]
\* bw > 0
BwPos(bw) == RhoLess(bw.lo, bw.hi)

NoRho == RhoZero(0)
NoBw == [hi |-> NoRho, lo |-> NoRho]
NoRatio == [kind |-> "none", num |-> NoBw, den |-> NoBw]
Quotient(num, den) == [kind |-> "quotient", num |-> num, den |-> den]

RhosOf(rs) == Filled([i \in 1..Len(rs) |-> rs[i].rho])

\* goldbach_rigid_scan.py line 225
RigidRatio(bw_comp, bw_gb) ==
  IF BwPos(bw_gb) THEN Quotient(bw_comp, bw_gb)
  ELSE [kind |-> "inf", num |-> bw_comp, den |-> bw_gb]

\* export_data.py line 71
ExportRatio(bw_comp, bw_gb) ==
  IF BwPos(bw_gb) THEN Quotient(bw_comp, bw_gb)
  ELSE [kind |-> "zero", num |-> bw_comp, den |-> bw_gb]

\* goldbach_rigid_scan.py line 124: a float division, which raises on 0.0
ReportRatio(bw_comp, bw_gb) ==
  IF BwPos(bw_gb) THEN Quotient(bw_comp, bw_gb)
  ELSE [kind |-> "ZeroDivisionError", num |-> bw_comp, den |-> bw_gb]

NoStats == [printed |-> FALSE, err |-> "none", num_goldbach |-> 0,
            rho_min |-> NoRho, rho_max |-> NoRho,
            bw_gb |-> NoBw, bw_comp |-> NoBw, ratio |-> NoRatio]

StatsOf(gb_rhos, comp_rhos, ratio) ==
  [printed |-> TRUE, err |-> "none", num_goldbach |-> Len(gb_rhos),
   rho_min |-> MinRho(gb_rhos), rho_max |-> MaxRho(gb_rhos),
   bw_gb |-> Bandwidth(gb_rhos), bw_comp |-> Bandwidth(comp_rhos),
   ratio |-> ratio]

\* goldbach_rigid_scan.py lines 219-226: the body of the series loop for Nk
\* (the printed mean is left out: nothing is decided on it)
RigidSeriesBody(Nk, rads, primes_set) ==
  LET rows_k == scan_N(Nk, rads, primes_set).rows
      gb_k == RhosOf(SelectSeq(rows_k, LAMBDA r : r.category = "Goldbach"))
      comp_k == RhosOf(SelectSeq(rows_k,
                  LAMBDA r : r.category = "Composite" /\ RhoPos(r.rho)))
  IN IF scan_N(Nk, rads, primes_set).err # "none"
     THEN [NoStats EXCEPT !.err = scan_N(Nk, rads, primes_set).err]
     ELSE IF gb_k # <<>> /\ comp_k # <<>>
     THEN StatsOf(gb_k, comp_k, RigidRatio(Bandwidth(comp_k), Bandwidth(gb_k)))
     ELSE NoStats

\* export_data.py lines 56-74: the body of the series loop for Nk
ExportSeriesBody(Nk, bits) ==
  LET sc == ExportScanRows(Nk, bits)
      gb_rhos == RhosOf(SelectSeq(sc.rows, LAMBDA r : r.type = "Goldbach"))
      comp_rhos == RhosOf(SelectSeq(sc.rows,
                     LAMBDA r : r.type = "Composite" /\ RhoPos(r.rho)))
  IN IF sc.err # "none" THEN [NoStats EXCEPT !.err = sc.err]
     ELSE IF gb_rhos # <<>> /\ comp_rhos # <<>>
     THEN StatsOf(gb_rhos, comp_rhos,
                  ExportRatio(Bandwidth(comp_rhos), Bandwidth(gb_rhos)))
     ELSE NoStats

\* ------------------------- goldbach_rigid_scan.py: single-N report (93-124)
\* list.sort(key=rho): ascending and stable
\* the sort with reverse=True
SortByRho_reversed(s) ==
  LET n == Len(s)
      pos == Filled([i \in 1..n |->
                Cardinality({j \in 1..n :
                   \/ RhoLess(s[i].rho, s[j].rho)
                   \/ (~RhoLess(s[j].rho, s[i].rho) /\ j < i)}) + 1])
  IN Filled([r \in 1..n |-> s[CHOOSE i \in 1..n : pos[i] = r]])

SortByRho(s) ==
  LET n == Len(s)
      \* the place of s[i]: after every smaller rho and every earlier equal one
      pos == Filled([i \in 1..n |->
                Cardinality({j \in 1..n :
                   \/ RhoLess(s[j].rho, s[i].rho)
                   \/ (~RhoLess(s[i].rho, s[j].rho) /\ j < i)}) + 1])
  IN Filled([r \in 1..n |-> s[CHOOSE i \in 1..n : pos[i] = r]])

GoldbachRows(rs) == SortByRho(SelectSeq(rs, LAMBDA r : r.category = "Goldbach"))
CompositeRows(rs) == SortByRho(SelectSeq(rs, LAMBDA r : r.category = "Composite"))

NoPair == [p |-> 0, q |-> 0]
NoReport == [err |-> "unset", ground |-> NoPair, ratio |-> NoRatio]

\* lines 114-124: min() of an empty list raises ValueError (lines 118-120)
\* before the ground state is printed; line 124 divides by the Goldbach bandwidth
ReportOf(rs) ==
  LET gb_ == GoldbachRows(rs)
      gb_rhos == RhosOf(gb_)
      mix_rhos == RhosOf(SelectSeq(rs, LAMBDA r : r.category = "Mixed" /\ RhoPos(r.rho)))
      comp_rhos == RhosOf(SelectSeq(rs, LAMBDA r : r.category = "Composite" /\ RhoPos(r.rho)))
  IN IF gb_rhos = <<>> \/ mix_rhos = <<>> \/ comp_rhos = <<>>
     THEN [err |-> "ValueError", ground |-> NoPair, ratio |-> NoRatio]
     ELSE LET ratio == ReportRatio(Bandwidth(comp_rhos), Bandwidth(gb_rhos))
          IN [err |-> IF ratio.kind = "ZeroDivisionError" THEN ratio.kind ELSE "none",
              ground |-> [p |-> gb_[1].p, q |-> gb_[1].q],
              ratio |-> ratio]

\* ------------------------------------------------------------------ state
VARIABLES
  pc,        \* where the run is
  limit,     \* the sieve limit in use
  sieved,    \* (rads, primes_set) of sieve_radicals
  is_prime,  \* the bytearray of export_data.sieve
  N,         \* the scan target
  scan_err,  \* what the call of scan_N raised ("none": it returned)
  rows,      \* scan_N's rows
  xrows,     \* export_data's rows
  gb, comp,  \* the sorted Goldbach and Composite rows of the report
  report,    \* what the single-N report prints
  stats,     \* the series body of goldbach_rigid_scan.py run for N
  xstats,    \* the series body of export_data.py run for N
  LIMIT,     \* the series' sieve limit
  k,         \* the series loop variable
  table,     \* the lines the series of goldbach_rigid_scan.py has printed
  rows2      \* the rows the series of export_data.py has collected

vars == <<pc, limit, sieved, is_prime, N, scan_err, rows, xrows, gb, comp, report,
          stats, xstats, LIMIT, k, table, rows2>>

scanVars == <<N, scan_err, rows, xrows, gb, comp, report, stats, xstats>>
seriesVars == <<LIMIT, k, table, rows2>>

NoSieve == [err |-> "unset", rads |-> <<>>, primes_set |-> {}]
NoBits == [err |-> "unset", bits |-> <<>>]
NoScan == [err |-> "unset", rows |-> <<>>]

Limits == (0..MaxLimit) \cup {MainN + 1}

\* The callers keep N below the sieve limit: limit = N + 1 at line 89, and
\* Nk <= LIMIT with limit = LIMIT + 1 at lines 210-219.
Targets(lim) == IF lim = MainN + 1 THEN {MainN} ELSE (-NegSpan)..(lim - 1)

SeriesLimits == {2^j : j \in KFirst..KLast}

Init ==
  /\ pc = "start"
  /\ limit = 0
  /\ sieved = NoSieve
  /\ is_prime = NoBits
  /\ N = 0
  /\ scan_err = "unset"
  /\ rows = <<>>
  /\ xrows = NoScan
  /\ gb = <<>>
  /\ comp = <<>>
  /\ report = NoReport
  /\ stats = NoStats
  /\ xstats = NoStats
  /\ LIMIT = 0
  /\ k = 0
  /\ table = <<>>
  /\ rows2 = <<>>

\* ---- one scan: the sieves, scan_N, the export scan, the statistics, the report
\* sieve_radicals(limit)
SieveRadicals ==
  /\ pc = "start"
  /\ \E l \in Limits :
       /\ limit' = l
       /\ sieved' = sieve_radicals(l)
       /\ pc' = IF sieved'.err = "none" THEN "rads" ELSE "raised"
  /\ UNCHANGED <<is_prime, scanVars, seriesVars>>

\* export_data.sieve(limit)
Sieve ==
  /\ pc = "rads"
  /\ is_prime' = sieve(limit)
  /\ pc' = "sieved"
  /\ UNCHANGED <<limit, sieved, scanVars, seriesVars>>

\* rows = scan_N(N, rads, primes_set)
ScanN ==
  /\ pc = "sieved"
  /\ \E n \in Targets(limit) :
       /\ N' = n
       /\ rows' = scan_N(n, sieved.rads, sieved.primes_set).rows
       /\ scan_err' = scan_N(n, sieved.rads, sieved.primes_set).err
  /\ pc' = "scanned"
  /\ UNCHANGED <<limit, sieved, is_prime, xrows, gb, comp, report, stats, xstats,
                 seriesVars>>

\* export_data.py lines 33-44 for the same N
ExportScan ==
  /\ pc = "scanned"
  /\ xrows' = ExportScanRows(N, is_prime.bits)
  /\ pc' = "xscanned"
  /\ UNCHANGED <<limit, sieved, is_prime, N, scan_err, rows, gb, comp, report, stats, xstats,
                 seriesVars>>

\* the bodies of the two series loops run for Nk = N
SeriesBodies ==
  /\ pc = "xscanned"
  /\ stats' = RigidSeriesBody(N, sieved.rads, sieved.primes_set)
  /\ xstats' = ExportSeriesBody(N, is_prime.bits)
  /\ pc' = "aggregated"
  /\ UNCHANGED <<limit, sieved, is_prime, N, scan_err, rows, xrows, gb, comp, report, seriesVars>>

\* goldbach_rigid_scan.py lines 93-124
Report ==
  /\ pc = "aggregated"
  /\ gb' = GoldbachRows(rows)
  /\ comp' = CompositeRows(rows)
  /\ report' = ReportOf(rows)
  /\ pc' = "reported"
  /\ UNCHANGED <<limit, sieved, is_prime, N, scan_err, rows, xrows, stats, xstats, seriesVars>>

\* ---- the 2^k series of both scripts over one shared sieve each
SeriesRow(Nk, kk, st) ==
  [N |-> Nk, k |-> kk, num_goldbach |-> st.num_goldbach,
   rho_min |-> st.rho_min, rho_max |-> st.rho_max,
   BW_goldbach |-> st.bw_gb, BW_composite |-> st.bw_comp, ratio |-> st.ratio]

\* lines 209-210 and export_data.py lines 28-29
SeriesSieve ==
  /\ pc = "start"
  /\ \E L \in SeriesLimits :
       /\ LIMIT' = L
       /\ limit' = L + 1
       /\ sieved' = sieve_radicals(L + 1)
       /\ is_prime' = sieve(L + 1)
  /\ k' = KFirst
  /\ pc' = "series"
  /\ UNCHANGED <<scanVars, table, rows2>>

\* goldbach_rigid_scan.py lines 215-226, one pass of the loop (or its end)
RigidSeriesStep ==
  /\ pc = "series"
  /\ IF k <= KLast /\ ~(2^k > LIMIT)
     THEN LET st == RigidSeriesBody(2^k, sieved.rads, sieved.primes_set)
          IN /\ table' = IF st.printed THEN Append(table, SeriesRow(2^k, k, st))
                         ELSE table
             /\ k' = k + 1
             /\ pc' = pc
     ELSE /\ pc' = "xseries"
          /\ k' = KFirst
          /\ table' = table
  /\ UNCHANGED <<limit, sieved, is_prime, scanVars, LIMIT, rows2>>

\* export_data.py lines 54-80, one pass of the loop, or the CSV write after it
ExportSeriesStep ==
  /\ pc = "xseries"
  /\ IF k <= KLast
     THEN LET st == ExportSeriesBody(2^k, is_prime.bits)
          IN IF st.err # "none"
             THEN /\ pc' = "xraised"
                  /\ UNCHANGED <<k, rows2>>
             ELSE /\ rows2' = IF st.printed THEN Append(rows2, SeriesRow(2^k, k, st))
                              ELSE rows2
                  /\ k' = k + 1
                  /\ pc' = pc
     ELSE /\ pc' = "written"
          /\ UNCHANGED <<k, rows2>>
  /\ UNCHANGED <<limit, sieved, is_prime, scanVars, LIMIT, table>>

Next ==
  \/ SieveRadicals
  \/ Sieve
  \/ ScanN
  \/ ExportScan
  \/ SeriesBodies
  \/ Report
  \/ SeriesSieve
  \/ RigidSeriesStep
  \/ ExportSeriesStep

Spec == Init /\ [][Next]_vars

\* ------------------------------------------------------------ reference
\* Definitions the properties are stated with; none is used by the model.
IsPrimeDef(n) == n > 1 /\ \A d \in 2..(n - 1) : n % d # 0

RECURSIVE IsPow2(_)
IsPow2(n) == n >= 1 /\ (n = 1 \/ (n % 2 = 0 /\ IsPow2(n \div 2)))

RECURSIVE ProductOf(_)
ProductOf(S) == IF S = {} THEN 1
                ELSE LET x == CHOOSE y \in S : TRUE IN x * ProductOf(S \ {x})

\* the product of the distinct prime factors of n (1 for n <= 1)
RadicalDef(n) == ProductOf({d \in 2..n : n % d = 0 /\ IsPrimeDef(d)})

CategoryDef(p_prime, q_prime) ==
  IF p_prime /\ q_prime THEN "Goldbach"
  ELSE IF ~p_prime /\ ~q_prime THEN "Composite"
  ELSE "Mixed"

AfterScan == pc \in {"scanned", "xscanned", "reported", "aggregated"}
AfterExport == pc \in {"xscanned", "reported", "aggregated"}
AfterReport == pc = "reported"
SeriesOver == pc \in {"xseries", "written", "xraised"}

\* rs holds one row for each p = 3 .. n div 2, ascending, each a split of n
OneRowPerP(rs, n) ==
  /\ Len(rs) = (n \div 2) - 2
  /\ \A i \in 1..Len(rs) :
       /\ rs[i].p = i + 2
       /\ rs[i].p + rs[i].q = n
       /\ rs[i].q > 1
       /\ rs[i].p <= rs[i].q

\* C1: for every N >= 6 the scan of scan_N and the scan of export_data.py
\* return exactly one row per p in 3 .. N div 2, in ascending order of p, each
\* with p + q = N, q > 1 and p <= q.
C1_OneRowPerP ==
  /\ (AfterScan /\ N >= 6) => (scan_err = "none" /\ OneRowPerP(rows, N))
  /\ (AfterExport /\ N >= 6) => (xrows.err = "none" /\ OneRowPerP(xrows.rows, N))

C1_Witness == AfterExport /\ N >= 6 /\ Len(rows) >= 2 /\ Len(xrows.rows) >= 2

\* C2: a row's category is decided by the primality of p and q alone
\* (Goldbach: both prime; Composite: neither; Mixed: exactly one), and the two
\* scripts' classifiers give every (p, q) the same category.
C2_CategoryByPrimality ==
  AfterExport =>
    /\ Len(xrows.rows) = Len(rows)
    /\ \A i \in 1..Len(rows) :
         /\ rows[i].category =
              CategoryDef(IsPrimeDef(rows[i].p), IsPrimeDef(rows[i].q))
         /\ xrows.rows[i].p = rows[i].p
         /\ xrows.rows[i].q = rows[i].q
         /\ xrows.rows[i].type = rows[i].category

C2_Witness ==
  /\ AfterExport
  /\ \A c \in {"Goldbach", "Mixed", "Composite"} :
       \E i \in 1..Len(rows) : rows[i].category = c /\ xrows.rows[i].type = c

\* C3: for every n in 0..limit the odd radical looked up in the sieve's table
\* equals the odd radical found by trial division; the value is odd and >= 1,
\* and it is 1 for n <= 1 and for every power of two.
C3_OddRadicalsAgree ==
  sieved.err = "none" =>
    \A n \in 0..limit :
      LET v == odd_rad(n, sieved.rads)
      IN /\ v = odd_radical(n)
         /\ v % 2 = 1
         /\ v >= 1
         /\ (n <= 1 \/ IsPow2(n)) => v = 1

C3_Witness ==
  /\ pc = "rads"
  /\ limit = MainN + 1
  /\ odd_rad(MainN, sieved.rads) = 1
  /\ odd_radical(MainN) = 1
  /\ odd_rad(MainN - 3, sieved.rads) = MainN - 3

SentinelOnZero(r) == (r.kind # "none" /\ ~BwPos(r.den)) => r.kind = "inf"

\* C5: wherever a bandwidth ratio is computed with a Goldbach bandwidth of
\* exactly 0, the result is the explicit sentinel, never 0 or another default:
\* in the single-N report and in the series of both scripts.
C5_AsStated ==
  /\ SentinelOnZero(report.ratio)
  /\ SentinelOnZero(stats.ratio)
  /\ SentinelOnZero(xstats.ratio)
  /\ \A i \in 1..Len(table) : SentinelOnZero(table[i].ratio)
  /\ \A i \in 1..Len(rows2) : SentinelOnZero(rows2[i].ratio)

KsOf(t) == Filled([i \in 1..Len(t) |-> t[i].k])
\* the k of the range, ascending, whose 2^k the sieve limit covers
KsWithinLimit ==
  SelectSeq(Filled([i \in 1..(KLast - KFirst + 1) |-> KFirst + i - 1]),
            LAMBDA kk : 2^kk <= LIMIT)

\* C6: a series over an ascending range of k yields one row per k with
\* 2^k <= limit, in ascending k; a k past the limit is skipped without raising
\* and without losing the rows already produced.
C6_AsStated ==
  /\ SeriesOver => KsOf(table) = KsWithinLimit
  /\ pc # "xraised"
  /\ pc = "written" => KsOf(rows2) = KsWithinLimit

RhoRowOK(cond, rho) ==
  /\ ~RhoLess(rho, RhoZero(N))
  /\ (rho = RhoZero(N)) <=> ~BigLess(BigOne, cond)
  /\ RhoPos(rho) <=> BigLess(BigOne, cond)

\* C7: every row has rho >= 0, with rho = 0 exactly when conductor_proxy <= 1;
\* every Goldbach row has rho > 0, so dropping the rho = 0 entries removes no
\* Goldbach row.
C7_RhoZeroIffTrivial ==
  /\ AfterScan =>
       \A i \in 1..Len(rows) :
         /\ RhoRowOK(rows[i].conductor_proxy, rows[i].rho)
         /\ rows[i].category = "Goldbach" => RhoPos(rows[i].rho)
  /\ AfterExport =>
       \A i \in 1..Len(xrows.rows) :
         /\ RhoRowOK(xrows.rows[i].conductor_proxy, xrows.rows[i].rho)
         /\ xrows.rows[i].type = "Goldbach" => RhoPos(xrows.rows[i].rho)
  /\ AfterReport => SelectSeq(gb, LAMBDA r : RhoPos(r.rho)) = gb

C7_Witness ==
  /\ AfterReport
  /\ \E i \in 1..Len(rows) : rows[i].rho = RhoZero(N) /\ rows[i].category = "Composite"
  /\ \E i \in 1..Len(rows) : rows[i].category = "Goldbach" /\ RhoPos(rows[i].rho)

\* C8: at N = 1024 the Goldbach rows include (3, 1021); the reported ground
\* state is the first Goldbach row after the sort by rho, its rho is <= that of
\* every other Goldbach row, and it is the Goldbach row with the smallest p,
\* (3, 1021).
C8_GroundState ==
  AfterReport =>
    /\ gb # <<>> =>
         /\ gb[1].category = "Goldbach"
         /\ \A i \in 1..Len(gb) :
              ~RhoLess(gb[i].rho, gb[1].rho) /\ gb[1].p <= gb[i].p
    /\ report.err # "ValueError" =>
         report.ground = [p |-> gb[1].p, q |-> gb[1].q]
    /\ N = MainN =>
         /\ report.err = "none"
         /\ report.ground = [p |-> 3, q |-> MainN - 3]
         /\ \E i \in 1..Len(gb) : gb[i].p = 3 /\ gb[i].q = MainN - 3
         /\ rows[1].p = 3 /\ rows[1].q = MainN - 3 /\ rows[1].category = "Goldbach"

C8_Witness ==
  /\ AfterReport
  /\ N = MainN
  /\ Len(gb) > 1
  /\ report.ground = [p |-> 3, q |-> 1021]

\* the sieve returned, with the radical of every n in 0..limit and the primes
SieveIsRight ==
  /\ sieved.err = "none"
  /\ Len(sieved.rads) = limit + 1
  /\ \A n \in 0..limit : At(sieved.rads, n) = RadicalDef(n)
  /\ sieved.primes_set = {n \in 2..limit : IsPrimeDef(n)}

\* C9: sieve_radicals(limit) returns rads[n] = the product of the distinct
\* prime factors of n for every n in 0..limit, with rads[0] = rads[1] = 1, and
\* primes_set = the primes of 2..limit.
C9_AsStated == pc # "start" => SieveIsRight

\* what holds of sieve_radicals: the same from limit = 1 on
C9_FromLimitOne == (pc # "start" /\ limit >= 1) => SieveIsRight

\* C10: for N a power of two, odd_rad(N div 2) = 1 and the conductor proxy of
\* scan_N equals the product proxy of export_data.py on every row; the two
\* differ on the rows of an N whose odd_rad(N div 2) is not 1.
C10_ProxiesAgree ==
  (AfterExport /\ rows # <<>>) =>
    /\ (IsPow2(N) /\ N >= 4) => odd_rad(N \div 2, sieved.rads) = 1
    /\ odd_rad(N \div 2, sieved.rads) = 1 =>
         \A i \in 1..Len(rows) :
           rows[i].conductor_proxy = xrows.rows[i].conductor_proxy
    /\ odd_rad(N \div 2, sieved.rads) # 1 =>
         \A i \in 1..Len(rows) :
           rows[i].conductor_proxy # xrows.rows[i].conductor_proxy

C10_Witness ==
  /\ AfterExport
  /\ IsPow2(N)
  /\ Len(rows) > 1
  /\ rows[1].conductor_proxy = xrows.rows[1].conductor_proxy
  /\ BigLess(BigOne, rows[1].conductor_proxy)

====
